---- MODULE Spec2Model ----
(***************************************************************************)
(* Hex mesh background of charalampidis-minimal: the mesh builder          *)
(* (createHexGrid) and the interaction / render loop of the load handler.  *)
(*                                                                         *)
(* Numbers the script keeps as floats are kept here in fixed point:        *)
(* lattice coordinates in 1/PosScale units, pointer coordinates in         *)
(* 1/PtrScale units, times in milliseconds.  Typed arrays keep their       *)
(* element width (Uint16Array entries are taken modulo 2^16).              *)
(***************************************************************************)
EXTENDS Integers, Sequences, FiniteSets, TLC

\* ------------------------------------------------------------------ bounds
\* Largest lattice drawn for the mesh builder's own specification.
MaxCols == 7
MaxRows == 6
\* Fixed-point resolution of lattice coordinates (units per 1.0).
PosScale == 10000
\* Handlers and callbacks run in one behaviour of the page's specification.
MaxEvents == 5
\* A long pause between two frames, in ms.
LongGap == 5000
\* Frames of one behaviour of the easing specification, and the number of
\* frames before which the pointer still moves.
EaseFrames == 100
MoveWindow == 2
\* Frames without a pointer event after which the speed target must be 0.
SpeedRestFrames == 97
\* Frames and shocks of one behaviour of the shock specification.
ShockFrames == 7
MaxShocks == 1
\* Frames of one behaviour of the shock strength specification, and how far
\* a frame's timestamp can lie behind the clock a press reads, in ms.
HeatFrames == 6
HeatSkew == 4
\* Fixed-point resolution of pointer coordinates and speeds (units per 1.0).
PtrScale == 1000000
\* The loop's lattices are built at 1/LevelShrink of a level's size.
LevelShrink == 20
\* Frames and user events of one behaviour of the render loop's specification.
LoopFrames == 4
\* Handlers and frames of one behaviour of the window's specification.
ViewEvents == 4
LoopEvents == 3

\* ------------------------------------------------------------ arithmetic
Min(a, b) == IF a < b THEN a ELSE b
Max(a, b) == IF a > b THEN a ELSE b
Abs(a) == IF a < 0 THEN 0 - a ELSE a
\* Division rounded to the nearest unit (the rounding of a float product or
\* quotient, at this model's resolution); b > 0.
RoundDiv(a, b) == (a + (b \div 2)) \div b

RECURSIVE SqrtSearch(_, _, _)
SqrtSearch(n, lo, hi) ==
  IF lo >= hi THEN lo
  ELSE LET mid == (lo + hi + 1) \div 2
       IN  IF mid * mid <= n THEN SqrtSearch(n, mid, hi)
           ELSE SqrtSearch(n, lo, mid - 1)
\* Integer square root, for n up to 9,000,000.
Isqrt(n) == SqrtSearch(n, 0, 3000)

\* ------------------------------------------------------------------ state
VARIABLES
  mesh,             \* a call of the mesh builder: its arguments and its result
  phase,            \* the load handler: "unloaded", "disabled", "threw", "running"
  gl,               \* what canvas.getContext returned: "none" before the call,
                    \* "null" or "context"
  program,          \* what createProgram returned: "none" before the call
  consoleErrors,    \* number of console.error calls
  uncaught,         \* number of exceptions that left a handler
  listeners,        \* event types with a registered listener
  rafQueue,         \* callbacks given to requestAnimationFrame, oldest first
  currentMeshLevel, \* id of the current mesh level
  grid,             \* the grid in use, with the identity of its object
  posBuf,           \* contents of the ARRAY_BUFFER last uploaded
  idxBuf,           \* contents of the ELEMENT_ARRAY_BUFFER last uploaded
  uploads,          \* number of uploadGridBuffers calls
  targetMouse,      \* raw pointer position
  mouse,            \* smoothed pointer position
  aspectScale,      \* aspect correction pair, each a ratio
  shockState,       \* origin and start time (-1: none) of the one shock
  pointerSpeed,     \* target, value, lastX, lastY, lastTime
  menu,             \* the context menu element and menuVisible
  win,              \* the window: inner size, device pixel ratio, canvas client size
  canvas,           \* canvas.width, canvas.height
  uniforms,         \* the uniforms of the last frame
  draws,            \* drawElements calls: how many, and the last one's arguments
  now,              \* performance.now(), in ms
  frames,           \* number of render callbacks run
  events,           \* number of handlers and callbacks run
  ease,             \* history: frames since the target last changed, the distance
                    \* then (d0), and d0 * 0.93^frames (left)
  lastPress,        \* history: the most recent primary press
  lastEvent,        \* history: the handler or callback that ran last, and its inputs
  placed            \* history: the last menu placement and what it read

\* ---------------------------------------------------------------- values
NoGrid == [positions |-> << >>, indices |-> << >>]

\* An element store of 12 bits.
Uint12(v) == v % 4096

\* Uint16Array element store: the value modulo 2^16.
Uint16(v) == v % 65536

\* ------------------------------------------------------------ mesh builder
\* Math.sqrt(3) * 0.5 in lattice units.
cellHeightOf == (PosScale * 866) \div 1000
\* The widen factor passed to normalizePositions (1.25), in hundredths.
widenFactor == 125

\* The point pushed by the loops of buildHexPoints for k = j * cols + i.
PointAt(cols, cellHeight, k) ==
  LET j == k \div cols
      i == k % cols
      offset == (j % 2) * (PosScale \div 2)
  IN  [x |-> i * PosScale + offset, y |-> j * cellHeight]

\* The points in the order the two nested loops push them (row by row).
buildHexPoints(cols, rows, cellHeight) ==
  [k \in 1..(cols * rows) |-> PointAt(cols, cellHeight, k - 1)]

\* Infinity and -Infinity of computeBounds: beyond every lattice coordinate.
Infinity == 1000 * PosScale

\* One pass of the loop of computeBounds over a point.
BoundsStep(acc, p) ==
  [minX |-> IF p.x < acc.minX THEN p.x ELSE acc.minX,
   maxX |-> IF p.x > acc.maxX THEN p.x ELSE acc.maxX,
   minY |-> IF p.y < acc.minY THEN p.y ELSE acc.minY,
   maxY |-> IF p.y > acc.maxY THEN p.y ELSE acc.maxY]

NoBounds ==
  [minX |-> Infinity, maxX |-> 0 - Infinity, minY |-> Infinity, maxY |-> 0 - Infinity]

\* Two runs of the loop, joined: the minima and maxima of both.
JoinBounds(a, b) ==
  [minX |-> Min(a.minX, b.minX), maxX |-> Max(a.maxX, b.maxX),
   minY |-> Min(a.minY, b.minY), maxY |-> Max(a.maxY, b.maxY)]

RECURSIVE BoundsLoop(_, _, _)
\* The loop of computeBounds over points[lo..hi], taken in two halves.
BoundsLoop(points, lo, hi) ==
  IF lo > hi THEN NoBounds
  ELSE IF lo = hi THEN BoundsStep(NoBounds, points[lo])
       ELSE LET mid == (lo + hi) \div 2
            IN  JoinBounds(BoundsLoop(points, lo, mid), BoundsLoop(points, mid + 1, hi))

\* A span taken as it is.
OrZero(d) == d

\* "d || 1": a zero span is replaced by 1.0.
OrOne(d) == IF d = 0 THEN PosScale ELSE d

computeBounds(points) ==
  LET acc == BoundsLoop(points, 1, Len(points))
  IN  [minX |-> acc.minX, minY |-> acc.minY,
       spanX |-> OrOne(acc.maxX - acc.minX),
       spanY |-> OrOne(acc.maxY - acc.minY)]

\* What a division by a zero span yields (0 / 0): no finite number.
NotANumber == 0 - (2 * Infinity)

\* A normalization onto [0, 1].
NormalizeUnit(c, lo, span) ==
  IF span = 0 THEN NotANumber ELSE RoundDiv((c - lo) * PosScale, span)

\* ((c - min) / span) * 2 - 1
Normalize(c, lo, span) ==
  IF span = 0 THEN NotANumber
  ELSE RoundDiv((c - lo) * PosScale, span) * 2 - PosScale

\* positions[i * 2] = nx * widenFactor; positions[i * 2 + 1] = ny
normalizePositions(points, bounds, widen) ==
  [k \in 1..(2 * Len(points)) |->
     LET p == points[(k + 1) \div 2]
         nx == Normalize(p.x, bounds.minX, bounds.spanX)
     IN  IF k % 2 = 1
         THEN IF nx = NotANumber THEN NotANumber ELSE RoundDiv(nx * widen, 100)
         ELSE Normalize(p.y, bounds.minY, bounds.spanY)]

index(cols, i, j) == j * cols + i

\* A lattice whose rows all take the even rows' diagonal.
neighborOffsetsOneDiagonal(parity) ==
  << <<1, 0>>, <<0, 1>>, <<0 - 1, 1>> >>

\* neighborOffsets[j % 2]
neighborOffsets(parity) ==
  IF parity = 0 THEN << <<1, 0>>, <<0, 1>>, <<0 - 1, 1>> >>
  ELSE << <<1, 0>>, <<0, 1>>, <<1, 1>> >>

\* A range test that forgets the right border.
InGridNoRightBorder(cols, rows, ni, nj) == ~(ni < 0 \/ nj < 0 \/ nj >= rows)

\* The negation of the "continue" test of buildHexEdges.
InGrid(cols, rows, ni, nj) == ~(ni < 0 \/ ni >= cols \/ nj < 0 \/ nj >= rows)

RECURSIVE NeighborLoop(_, _, _, _, _, _)
\* The innermost loop of buildHexEdges, over the neighbours of (i, j).
NeighborLoop(cols, rows, i, j, neighbors, n) ==
  IF n > Len(neighbors) THEN << >>
  ELSE LET ni == i + neighbors[n][1]
           nj == j + neighbors[n][2]
           rest == NeighborLoop(cols, rows, i, j, neighbors, n + 1)
       IN  IF InGrid(cols, rows, ni, nj)
           THEN << index(cols, i, j), index(cols, ni, nj) >> \o rest
           ELSE rest

RECURSIVE EdgeLoop(_, _, _, _)
\* The two outer loops of buildHexEdges over the points lo..hi (k = j * cols
\* + i), taken in two halves: the pushes keep their order.
EdgeLoop(cols, rows, lo, hi) ==
  IF lo > hi THEN << >>
  ELSE IF lo = hi
       THEN LET j == lo \div cols
                i == lo % cols
            IN  NeighborLoop(cols, rows, i, j, neighborOffsets(j % 2), 1)
       ELSE LET mid == (lo + hi) \div 2
            IN  EdgeLoop(cols, rows, lo, mid) \o EdgeLoop(cols, rows, mid + 1, hi)

\* new Uint16Array(edges)
ToUint16Array(edges) == [k \in 1..Len(edges) |-> Uint16(edges[k])]

buildHexEdges(cols, rows) == ToUint16Array(EdgeLoop(cols, rows, 0, cols * rows - 1))

createHexGrid(cols, rows) ==
  LET cellHeight == cellHeightOf
      rawPoints == buildHexPoints(cols, rows, cellHeight)
      bounds == computeBounds(rawPoints)
  IN  [positions |-> normalizePositions(rawPoints, bounds, widenFactor),
       indices |-> buildHexEdges(cols, rows)]

\* ---- the earlier variant of the mesh builder (src/src/main.js) ----
\* What the connectivity loops push for the point (i, j).
MainEdgesAt(cols, rows, i, j) ==
  LET odd == j % 2
      a == index(cols, i, j)
      di == IF odd /= 0 THEN i + 1 ELSE i - 1
      horizontal == IF i + 1 < cols
                    THEN << a, index(cols, i + 1, j) >> ELSE << >>
      down == IF j + 1 < rows
              THEN << a, index(cols, i, j + 1) >>
                     \o (IF di >= 0 /\ di < cols
                         THEN << a, index(cols, di, j + 1) >> ELSE << >>)
              ELSE << >>
  IN  horizontal \o down

RECURSIVE MainEdgeLoop(_, _, _, _)
MainEdgeLoop(cols, rows, lo, hi) ==
  IF lo > hi THEN << >>
  ELSE IF lo = hi THEN MainEdgesAt(cols, rows, lo % cols, lo \div cols)
       ELSE LET mid == (lo + hi) \div 2
            IN  MainEdgeLoop(cols, rows, lo, mid) \o MainEdgeLoop(cols, rows, mid + 1, hi)

createHexGridMain(cols, rows) ==
  LET raw == buildHexPoints(cols, rows, cellHeightOf)
      bounds == computeBounds(raw)
  IN  [positions |-> normalizePositions(raw, bounds, widenFactor),
       indices |-> ToUint16Array(MainEdgeLoop(cols, rows, 0, cols * rows - 1))]

\* ----------------------------------------------------------- mesh levels
meshLevels ==
  << [id |-> "minimal", label |-> "Light mesh", cols |-> 52, rows |-> 18],
     [id |-> "balanced", label |-> "Balanced mesh", cols |-> 80, rows |-> 28],
     [id |-> "dense", label |-> "Dense mesh", cols |-> 120, rows |-> 42] >>

LevelIds == {meshLevels[k].id : k \in 1..Len(meshLevels)}

\* What find returns when no level has the id.
Undefined == [id |-> "undefined", label |-> "", cols |-> 0, rows |-> 0]

\* meshLevels.find(item => item.id === id)
FindLevel(id) ==
  IF id \in LevelIds
  THEN meshLevels[CHOOSE k \in 1..Len(meshLevels) :
                    /\ meshLevels[k].id = id
                    /\ \A h \in 1..(k - 1) : meshLevels[h].id /= id]
  ELSE Undefined

\* The lattice of a level as the loop's state holds it: built by
\* createHexGrid at 1/LevelShrink of the level's columns and rows, which
\* keeps the three levels' grids distinct.
LatticeCols(level) == Max(1, level.cols \div LevelShrink)
LatticeRows(level) == Max(1, level.rows \div LevelShrink)
\* createHexGrid(level.cols, level.rows), as a new object numbered obj.
LevelGrid(level, obj) ==
  LET g == createHexGrid(LatticeCols(level), LatticeRows(level))
  IN  [positions |-> g.positions, indices |-> g.indices, obj |-> obj]

\* ---------------------------------------------------------------- shaders
\* createShader: null, and one console.error, when the stage does not compile.
createShader(compiles) ==
  [shader |-> IF compiles THEN "shader" ELSE "null",
   errors |-> IF compiles THEN 0 ELSE 1]

createProgram(vsCompiles, fsCompiles, links) ==
  LET v == createShader(vsCompiles)
      f == createShader(fsCompiles)
  IN  IF v.shader = "null" \/ f.shader = "null"
      THEN [program |-> "null", errors |-> v.errors + f.errors]
      ELSE IF ~links
           THEN [program |-> "null", errors |-> 1]
           ELSE [program |-> "program", errors |-> 0]

\* ---------------------------------------------------------- initial values
Origin == [x |-> 0, y |-> 0]
One == [n |-> 1, d |-> 1]
InitialAspect == [x |-> One, y |-> One]
InitialShock == [origin |-> Origin, start |-> 0 - 1]
InitialSpeed(t) == [target |-> 0, value |-> 0, lastX |-> 0, lastY |-> 0, lastTime |-> t]
\* shockAge = -1, in ms.
NoAge == 0 - 1000
NoUniforms ==
  [uTime |-> 0, uMouse |-> Origin, uScale |-> 0, uAspect |-> InitialAspect,
   uShockOrigin |-> Origin, uShockTime |-> 0, uShockPower |-> [n |-> 0, d |-> 1],
   uMouseSpeed |-> 0, uShockHeat |-> [n |-> 0, d |-> 1]]
NoDraws == [count |-> 0, mode |-> "none", elements |-> 0, type |-> "none"]
NoMenu(present) ==
  [present |-> present, visible |-> FALSE, open |-> FALSE, ariaHidden |-> "unset",
   left |-> 0 - 1, top |-> 0 - 1, active |-> "none"]
NoEase == [held |-> 0, d0 |-> Origin, left |-> Origin]
NoPress == [primaryCount |-> 0, coords |-> Origin, time |-> 0 - 1]
NoPlaced == [n |-> 0, x |-> 0, y |-> 0, menuWidth |-> 0, menuHeight |-> 0,
             innerWidth |-> 0, innerHeight |-> 0]

\* ------------------------------------------------------------------ resize
\* value || 1
OrDefault(value, default) == IF value = 0 THEN default ELSE value

\* The device-pixel-scaled canvas size of resize().
ScaledSize(w) ==
  LET dpr == OrDefault(w.devicePixelRatio, 1)
  IN  [width |-> OrDefault(w.clientWidth, w.innerWidth) * dpr,
       height |-> OrDefault(w.clientHeight, w.innerHeight) * dpr]

\* A correction that always scales y.
AspectOfLandscape(size) ==
  LET aspect == IF size.height > 0 THEN [n |-> size.width, d |-> size.height] ELSE One
  IN  [x |-> One, y |-> aspect]

\* The aspect correction of resize(): aspect = h > 0 ? w / h : 1.
AspectOf(size) ==
  LET aspect == IF size.height > 0 THEN [n |-> size.width, d |-> size.height] ELSE One
  IN  IF aspect.n >= aspect.d
      THEN [x |-> One, y |-> aspect]
      ELSE IF aspect.n > 0
           THEN [x |-> [n |-> aspect.d, d |-> aspect.n], y |-> One]
           ELSE [x |-> One, y |-> One]

\* -------------------------------------------------------------- the menu
\* markActiveMeshButton: the button of the current level is the active one.
markActiveMeshButton(m, levelId) ==
  IF ~m.present THEN m ELSE [m EXCEPT !.active = levelId]

\* A close that leaves the 'open' class on the element.
closeContextMenuKeepsClass(m) ==
  IF ~m.present \/ ~m.visible THEN m
  ELSE [m EXCEPT !.ariaHidden = "true", !.visible = FALSE]

closeContextMenu(m) ==
  IF ~m.present \/ ~m.visible THEN m
  ELSE [m EXCEPT !.open = FALSE, !.ariaHidden = "true", !.visible = FALSE]

\* openContextMenu, up to its requestAnimationFrame call.
openContextMenu(m, levelId) ==
  IF ~m.present THEN m
  ELSE [markActiveMeshButton(m, levelId) EXCEPT
          !.open = TRUE, !.ariaHidden = "false", !.visible = TRUE]

\* The callbacks openContextMenu adds to the animation-frame queue.
PlaceCallbacks(m, clientX, clientY) ==
  IF ~m.present THEN << >>
  ELSE << [kind |-> "place", x |-> clientX, y |-> clientY] >>

\* A frame that requests no successor.
NoCallback == [kind |-> "none", x |-> 0, y |-> 0]

RenderCallback == [kind |-> "render", x |-> 0, y |-> 0]

\* A clamp that forgets the far edge.
ClampNearOnly(client, inner, size) == Max(12, client)

\* Math.max(12, Math.min(client, inner - size - 12))
Clamp(client, inner, size) == Max(12, Min(client, inner - size - 12))

\* ----------------------------------------------------------- the pointer
\* clipSpaceFromEvent: (clientX / innerWidth) * 2 - 1, and y negated.
clipSpaceFromEvent(clientX, clientY, w) ==
  [x |-> RoundDiv(clientX * PtrScale, w.innerWidth) * 2 - PtrScale,
   y |-> 0 - (RoundDiv(clientY * PtrScale, w.innerHeight) * 2 - PtrScale)]

\* Math.hypot(dx, dy), to a thousandth.
Hypot(dx, dy) ==
  LET milli == PtrScale \div 1000
      mx == RoundDiv(Abs(dx), milli)
      my == RoundDiv(Abs(dy), milli)
  IN  Isqrt(mx * mx + my * my) * milli

\* Math.min(2.5, normalized)
SpeedCap == (PtrScale \div 10) * 25

recordPointerSpeed(ps, coords, t) ==
  LET dx == coords.x - ps.lastX
      dy == coords.y - ps.lastY
      dt == Max(1, t - ps.lastTime)
      dist == Hypot(dx, dy)
      normalized == RoundDiv(dist * 16, dt)
  IN  [ps EXCEPT !.target = Min(SpeedCap, normalized),
                 !.lastX = coords.x, !.lastY = coords.y, !.lastTime = t]

\* A step of 5% instead of 7%.
EaseSlow(cur, target) == cur + RoundDiv((target - cur) * 5, 100)

\* mouse += (targetMouse - mouse) * 0.07
Ease(cur, target) == cur + RoundDiv((target - cur) * 7, 100)

\* A decay that never clips the target to 0.
DecaySpeedNoFloor(ps) ==
  LET value == ps.value + RoundDiv((ps.target - ps.value) * 8, 100)
      target == RoundDiv(ps.target * 9, 10)
  IN  [ps EXCEPT !.value = value, !.target = target]

\* pointerSpeed.value += (target - value) * 0.08; target *= 0.9; clipped to 0
\* below 0.0001.
DecaySpeed(ps) ==
  LET value == ps.value + RoundDiv((ps.target - ps.value) * 8, 100)
      target == RoundDiv(ps.target * 9, 10)
  IN  [ps EXCEPT !.value = value,
                 !.target = IF target < PtrScale \div 10000 THEN 0 ELSE target]

\* A scale without the tablet bucket.
ScaleForThreeBuckets(w) ==
  IF w < 480 THEN 18
  ELSE IF w < 768 THEN 14
       ELSE 10

\* A scale whose buckets include their upper breakpoint.
ScaleForInclusive(w) ==
  IF w <= 480 THEN 18
  ELSE IF w <= 768 THEN 14
       ELSE IF w <= 1024 THEN 12
            ELSE 10

\* The scale chosen from window.innerWidth, in tenths.
ScaleFor(w) ==
  IF w < 480 THEN 18
  ELSE IF w < 768 THEN 14
       ELSE IF w < 1024 THEN 12
            ELSE 10

\* ------------------------------------------------------------ shock aging
\* An age test with a ceiling of 5.5 s.
AgeShockLate(shock, ms) ==
  IF shock.start >= 0
  THEN LET age == ms - shock.start
       IN  IF age > 5500
           THEN [shock |-> [shock EXCEPT !.start = 0 - 1], age |-> NoAge]
           ELSE [shock |-> shock, age |-> age]
  ELSE [shock |-> shock, age |-> NoAge]

\* The shock state and age after the age test of render(ms).
AgeShock(shock, ms) ==
  IF shock.start >= 0
  THEN LET age == ms - shock.start
       IN  IF age > 4500
           THEN [shock |-> [shock EXCEPT !.start = 0 - 1], age |-> NoAge]
           ELSE [shock |-> shock, age |-> age]
  ELSE [shock |-> shock, age |-> NoAge]

\* Math.max(0, 1 - shockAge / 3.2), or 0 for a negative age; as a ratio.
shockStrength(age) ==
  IF age >= 0 THEN [n |-> Max(0, 3200 - age), d |-> 3200] ELSE [n |-> 0, d |-> 1]

\* A heat that lasts 3.5 s.
shockHeatSlow(age) ==
  IF age >= 0 THEN [n |-> Max(0, 3500 - age), d |-> 3500] ELSE [n |-> 0, d |-> 1]

\* Math.max(0, 1 - shockAge / 2.2), or 0 for a negative age; as a ratio.
shockHeat(age) ==
  IF age >= 0 THEN [n |-> Max(0, 2200 - age), d |-> 2200] ELSE [n |-> 0, d |-> 1]

\* --------------------------------------------------------------- buffers
\* An upload that leaves the index buffer as it was.
uploadPositionsOnly(data) == [posBuf |-> data.positions, idxBuf |-> idxBuf]

\* uploadGridBuffers: both buffers receive the grid's arrays.
uploadGridBuffers(data) == [posBuf |-> data.positions, idxBuf |-> data.indices]

\* ------------------------------------------------------------------ draw
\* A frame that draws the lines twice.
drawElementsTwice(d, count) ==
  [count |-> d.count + 2, mode |-> "LINES", elements |-> count,
   type |-> "UNSIGNED_SHORT"]

\* gl.drawElements(gl.LINES, count, gl.UNSIGNED_SHORT, 0): one more call.
drawElements(d, count) ==
  [count |-> d.count + 1, mode |-> "LINES", elements |-> count,
   type |-> "UNSIGNED_SHORT"]

\* ------------------------------------------------------------ state groups
meshVars == << mesh >>
glVars == << gl, program, consoleErrors, uncaught, listeners >>
gridVars == << currentMeshLevel, grid, posBuf, idxBuf, uploads >>
pointerVars == << targetMouse, pointerSpeed, ease >>
viewVars == << win, canvas, aspectScale >>
frameVars == << mouse, uniforms, draws, frames >>
vars == << mesh, phase, gl, program, consoleErrors, uncaught, listeners, rafQueue,
           currentMeshLevel, grid, posBuf, idxBuf, uploads, targetMouse, mouse,
           aspectScale, shockState, pointerSpeed, menu, win, canvas, uniforms,
           draws, now, frames, events, ease, lastPress, lastEvent, placed >>

\* ---------------------------------------------------------------- history
\* The record of a handler's run: its kind, its inputs (detail is the key,
\* the button's data-level or the pointer type), and what it found.
Event(kind, detail, button, inMenu) ==
  [kind |-> kind, detail |-> detail, button |-> button, inMenu |-> inMenu,
   before |-> [level |-> currentMeshLevel, obj |-> grid.obj, uploads |-> uploads,
               menuVisible |-> menu.visible]]

NoEvent ==
  [kind |-> "none", detail |-> "", button |-> 0, inMenu |-> FALSE,
   before |-> [level |-> "none", obj |-> 0, uploads |-> 0, menuVisible |-> FALSE]]

\* ------------------------------------------------------- the load handler
\* A handler that goes on without a context.
LoadPathNoContextTest(glAvailable, created, nullProgramThrows) ==
  IF created = "null" /\ nullProgramThrows THEN "threw" ELSE "running"

\* Where the load handler ends: it returns at once without a context; the
\* host decides whether a call that is handed the null program throws.
LoadPath(glAvailable, created, nullProgramThrows) ==
  IF ~glAvailable THEN "disabled"
  ELSE IF created = "null" /\ nullProgramThrows THEN "threw"
       ELSE "running"

RegisteredListeners(menuPresent) ==
  (IF menuPresent THEN {"click"} ELSE {})
    \cup {"keydown", "contextmenu", "pointermove", "pointerdown", "resize"}

Load(glAvailable, vsCompiles, fsCompiles, links, nullProgramThrows, menuPresent) ==
  LET built == createProgram(vsCompiles, fsCompiles, links)
      path == LoadPath(glAvailable, built.program, nullProgramThrows)
      level == meshLevels[2]
      first == LevelGrid(level, 1)
      up == uploadGridBuffers(first)
      size == ScaledSize(win)
  IN  /\ phase = "unloaded"
      /\ phase' = path
      /\ gl' = IF glAvailable THEN "context" ELSE "null"
      /\ events' = events + 1
      /\ lastEvent' = Event("load", "", 0, FALSE)
      /\ UNCHANGED << mesh, win, now, frames, mouse, uniforms, draws, ease,
                      lastPress, placed >>
      /\ CASE path = "disabled" ->
                UNCHANGED << program, consoleErrors, uncaught, listeners, rafQueue,
                             currentMeshLevel, grid, posBuf, idxBuf, uploads,
                             targetMouse, aspectScale, shockState, pointerSpeed,
                             menu, canvas >>
           [] path = "threw" ->
                /\ program' = built.program
                /\ consoleErrors' = consoleErrors + built.errors
                /\ uncaught' = uncaught + 1
                /\ currentMeshLevel' = level.id
                /\ grid' = first
                /\ UNCHANGED << listeners, rafQueue, posBuf, idxBuf, uploads,
                                targetMouse, aspectScale, shockState, pointerSpeed,
                                menu, canvas >>
           [] path = "running" ->
                /\ program' = built.program
                /\ consoleErrors' = consoleErrors + built.errors
                /\ uncaught' = uncaught
                /\ currentMeshLevel' = level.id
                /\ grid' = first
                /\ posBuf' = up.posBuf
                /\ idxBuf' = up.idxBuf
                /\ uploads' = uploads + 1
                /\ targetMouse' = Origin
                /\ shockState' = InitialShock
                /\ pointerSpeed' = InitialSpeed(now)
                /\ menu' = markActiveMeshButton(NoMenu(menuPresent), level.id)
                /\ listeners' = RegisteredListeners(menuPresent)
                /\ canvas' = size
                /\ aspectScale' = AspectOf(size)
                /\ rafQueue' = << RenderCallback >>

\* ------------------------------------------------------------ menu events
\* The menu's click listener; button is the data-level of the button hit,
\* or "none" when the click hits no button.
MenuClick(button) ==
  LET level == FindLevel(button)
      switch == level /= Undefined /\ level.id /= currentMeshLevel
      rebuilt == LevelGrid(level, grid.obj + 1)
      up == uploadGridBuffers(rebuilt)
  IN  /\ "click" \in listeners
      /\ events' = events + 1
      /\ lastEvent' = Event("click", button, 0, TRUE)
      /\ IF button = "none"
         THEN UNCHANGED << gridVars, menu >>
         ELSE /\ IF switch
                 THEN /\ currentMeshLevel' = level.id
                      /\ grid' = rebuilt
                      /\ posBuf' = up.posBuf
                      /\ idxBuf' = up.idxBuf
                      /\ uploads' = uploads + 1
                 ELSE UNCHANGED gridVars
              /\ menu' = closeContextMenu(
                           IF switch THEN markActiveMeshButton(menu, level.id) ELSE menu)
      /\ UNCHANGED << meshVars, phase, glVars, rafQueue, pointerVars, viewVars,
                      frameVars, shockState, now, lastPress, placed >>

KeyDown(key) ==
  /\ "keydown" \in listeners
  /\ events' = events + 1
  /\ lastEvent' = Event("keydown", key, 0, FALSE)
  /\ menu' = IF key = "Escape" THEN closeContextMenu(menu) ELSE menu
  /\ UNCHANGED << meshVars, phase, glVars, rafQueue, gridVars, pointerVars,
                  viewVars, frameVars, shockState, now, lastPress, placed >>

\* The document's contextmenu listener.
ContextMenuEvent(clientX, clientY, inMenu) ==
  /\ "contextmenu" \in listeners
  /\ inMenu => menu.present
  /\ events' = events + 1
  /\ lastEvent' = Event("contextmenu", "", 2, inMenu)
  /\ IF inMenu
     THEN UNCHANGED << menu, rafQueue >>
     ELSE /\ menu' = openContextMenu(menu, currentMeshLevel)
          /\ rafQueue' = rafQueue \o PlaceCallbacks(menu, clientX, clientY)
  /\ UNCHANGED << meshVars, phase, glVars, gridVars, pointerVars, viewVars,
                  frameVars, shockState, now, lastPress, placed >>

\* --------------------------------------------------------- pointer events
\* The history of the target: a target that takes a new value starts a new
\* run of frames, at the distance d0 from the smoothed position.
EaseAfterTarget(coords) ==
  LET d0 == [x |-> Abs(coords.x - mouse.x), y |-> Abs(coords.y - mouse.y)]
  IN  IF coords = targetMouse THEN ease ELSE [held |-> 0, d0 |-> d0, left |-> d0]

PointerMove(clientX, clientY) ==
  LET coords == clipSpaceFromEvent(clientX, clientY, win)
  IN  /\ "pointermove" \in listeners
      /\ events' = events + 1
      /\ lastEvent' = Event("pointermove", "", 0, FALSE)
      /\ targetMouse' = coords
      /\ pointerSpeed' = recordPointerSpeed(pointerSpeed, coords, now)
      /\ ease' = EaseAfterTarget(coords)
      /\ UNCHANGED << meshVars, phase, glVars, rafQueue, gridVars, viewVars,
                      frameVars, shockState, menu, now, lastPress, placed >>

\* A primary press, in the words of the shock's description: the left mouse
\* button, or any touch or pen press, on a target outside the menu.
IsPrimaryPress(pointerType, button, inMenu) ==
  /\ ~inMenu
  /\ \/ pointerType = "mouse" /\ button = 0
     \/ pointerType \in {"touch", "pen"}

\* A handler that lets every mouse button start a shock.
StartsShockAnyButton(pointerType, button) == TRUE

\* The last test of the pointerdown listener: a mouse press other than the
\* left button returns before the shock is set.
StartsShock(pointerType, button) == ~(pointerType = "mouse" /\ button /= 0)

PointerDown(pointerType, button, clientX, clientY, inMenu) ==
  LET coords == clipSpaceFromEvent(clientX, clientY, win)
      opens == pointerType = "mouse" /\ button = 2
      closed == IF menu.visible THEN closeContextMenu(menu) ELSE menu
  IN  /\ "pointerdown" \in listeners
      /\ inMenu => menu.present
      /\ events' = events + 1
      /\ lastEvent' = Event("pointerdown", pointerType, button, inMenu)
      /\ lastPress' = IF IsPrimaryPress(pointerType, button, inMenu)
                      THEN [primaryCount |-> lastPress.primaryCount + 1,
                            coords |-> coords, time |-> now]
                      ELSE lastPress
      /\ IF opens
         THEN /\ menu' = openContextMenu(menu, currentMeshLevel)
              /\ rafQueue' = rafQueue \o PlaceCallbacks(menu, clientX, clientY)
              /\ UNCHANGED << pointerVars, shockState >>
         ELSE IF inMenu
              THEN UNCHANGED << menu, rafQueue, pointerVars, shockState >>
              ELSE /\ menu' = closed
                   /\ UNCHANGED rafQueue
                   /\ IF StartsShock(pointerType, button)
                      THEN /\ targetMouse' = coords
                           /\ pointerSpeed' = recordPointerSpeed(pointerSpeed, coords, now)
                           /\ ease' = EaseAfterTarget(coords)
                           /\ shockState' = [origin |-> coords, start |-> now]
                      ELSE UNCHANGED << pointerVars, shockState >>
      /\ UNCHANGED << meshVars, phase, glVars, gridVars, viewVars, frameVars,
                      now, placed >>

\* ---------------------------------------------------------------- resize
\* The window takes a new size; the resize listener, when registered, runs.
WindowResize(w) ==
  LET size == ScaledSize(w)
  IN  /\ phase /= "unloaded"
      /\ w /= win
      /\ win' = w
      /\ events' = events + 1
      /\ lastEvent' = Event("resize", "", 0, FALSE)
      /\ IF "resize" \in listeners
         THEN canvas' = size /\ aspectScale' = AspectOf(size)
         ELSE UNCHANGED << canvas, aspectScale >>
      /\ UNCHANGED << meshVars, phase, glVars, rafQueue, gridVars, pointerVars,
                      frameVars, shockState, menu, now, lastPress, placed >>

\* --------------------------------------------------------- animation frames
\* The placement callback of openContextMenu, run by the next frame;
\* offsetWidth and offsetHeight are what the menu's layout reports.
PlaceMenu(offsetWidth, offsetHeight) ==
  LET cb == Head(rafQueue)
      menuWidth == OrDefault(offsetWidth, 200)
      menuHeight == OrDefault(offsetHeight, 140)
  IN  /\ rafQueue /= << >>
      /\ cb.kind = "place"
      /\ rafQueue' = Tail(rafQueue)
      /\ events' = events + 1
      /\ lastEvent' = Event("place", "", 0, FALSE)
      /\ menu' = [menu EXCEPT !.left = Clamp(cb.x, win.innerWidth, menuWidth),
                              !.top = Clamp(cb.y, win.innerHeight, menuHeight)]
      /\ placed' = [n |-> placed.n + 1, x |-> cb.x, y |-> cb.y,
                    menuWidth |-> menuWidth, menuHeight |-> menuHeight,
                    innerWidth |-> win.innerWidth, innerHeight |-> win.innerHeight]
      /\ UNCHANGED << meshVars, phase, glVars, gridVars, pointerVars, viewVars,
                      frameVars, shockState, now, lastPress >>

\* render(ms): the frame comes dt after the last reading of the clock and its
\* timestamp is the frame's start, skew before the callback runs.
Render(dt, skew) ==
  LET cb == Head(rafQueue)
      ms == Max(0, now + dt - skew)
      size == ScaledSize(win)
      aspect == AspectOf(size)
      smoothed == [x |-> Ease(mouse.x, targetMouse.x),
                   y |-> Ease(mouse.y, targetMouse.y)]
      speed == DecaySpeed(pointerSpeed)
      aged == AgeShock(shockState, ms)
  IN  /\ rafQueue /= << >>
      /\ cb.kind = "render"
      /\ now' = now + dt
      /\ events' = events + 1
      /\ lastEvent' = Event("render", "", 0, FALSE)
      /\ frames' = frames + 1
      /\ canvas' = size
      /\ aspectScale' = aspect
      /\ mouse' = smoothed
      /\ pointerSpeed' = speed
      /\ shockState' = aged.shock
      /\ uniforms' = [uTime |-> ms, uMouse |-> smoothed,
                      uScale |-> ScaleFor(win.innerWidth), uAspect |-> aspect,
                      uShockOrigin |-> aged.shock.origin, uShockTime |-> aged.age,
                      uShockPower |-> shockStrength(aged.age),
                      uMouseSpeed |-> speed.value,
                      uShockHeat |-> shockHeat(aged.age)]
      /\ draws' = drawElements(draws, Len(grid.indices))
      /\ rafQueue' = Append(Tail(rafQueue), RenderCallback)
      /\ ease' = [held |-> ease.held + 1, d0 |-> ease.d0,
                  left |-> [x |-> RoundDiv(ease.left.x * 93, 100),
                            y |-> RoundDiv(ease.left.y * 93, 100)]]
      /\ UNCHANGED << meshVars, phase, glVars, gridVars, targetMouse, win, menu,
                      lastPress, placed >>

\* ------------------------------------------------- the mesh builder, called
loopVars == << phase, gl, program, consoleErrors, uncaught, listeners, rafQueue,
               currentMeshLevel, grid, posBuf, idxBuf, uploads, targetMouse,
               mouse, aspectScale, shockState, pointerSpeed, menu, win, canvas,
               uniforms, draws, now, frames, events, ease, lastPress, lastEvent, placed >>

\* The page before its load event, in a window of the given size.
Unloaded(w) ==
  /\ phase = "unloaded"
  /\ gl = "none"
  /\ program = "none"
  /\ consoleErrors = 0
  /\ uncaught = 0
  /\ listeners = {}
  /\ rafQueue = << >>
  /\ currentMeshLevel = "none"
  /\ grid = [positions |-> << >>, indices |-> << >>, obj |-> 0]
  /\ posBuf = << >>
  /\ idxBuf = << >>
  /\ uploads = 0
  /\ targetMouse = Origin
  /\ mouse = Origin
  /\ aspectScale = InitialAspect
  /\ shockState = InitialShock
  /\ pointerSpeed = InitialSpeed(0)
  /\ menu = NoMenu(FALSE)
  /\ win = w
  /\ canvas = [width |-> 300, height |-> 150]
  /\ uniforms = NoUniforms
  /\ draws = NoDraws
  /\ now = 0
  /\ frames = 0
  /\ events = 0
  /\ ease = NoEase
  /\ lastPress = NoPress
  /\ lastEvent = NoEvent
  /\ placed = NoPlaced

NoCall == [cols |-> 0, rows |-> 0, built |-> "no", grid |-> NoGrid]

Window(innerWidth, innerHeight) ==
  [innerWidth |-> innerWidth, innerHeight |-> innerHeight, devicePixelRatio |-> 1,
   clientWidth |-> innerWidth, clientHeight |-> innerHeight]

Desktop == Window(1280, 720)

InitGrid ==
  /\ mesh \in {[cols |-> c, rows |-> r, built |-> "no", grid |-> NoGrid] :
                c \in 1..MaxCols, r \in 1..MaxRows}
  /\ Unloaded(Desktop)

\* createHexGrid(cols, rows) of the reference variant (src/build.js).
CallCreateHexGrid ==
  /\ mesh.built = "no"
  /\ mesh' = [mesh EXCEPT !.built = "reference",
                          !.grid = createHexGrid(mesh.cols, mesh.rows)]
  /\ UNCHANGED loopVars

\* createHexGrid(cols, rows) of the earlier variant (src/src/main.js).
CallCreateHexGridMain ==
  /\ mesh.built = "no"
  /\ mesh' = [mesh EXCEPT !.built = "main",
                          !.grid = createHexGridMain(mesh.cols, mesh.rows)]
  /\ UNCHANGED loopVars

NextGrid == CallCreateHexGrid \/ CallCreateHexGridMain

SpecGrid == InitGrid /\ [][NextGrid]_vars

\* ------------------------------------------------------------- the page
Phone == Window(360, 640)
Windows == {Desktop, Phone}

\* Where a pointer event can land: a corner, the centre, the far corner.
ClientPoints(w) ==
  {<<0, 0>>, <<w.innerWidth \div 2, w.innerHeight \div 2>>,
   <<w.innerWidth, w.innerHeight>>}
Corners(w) == {<<0, 0>>, <<w.innerWidth, w.innerHeight>>}

PointerTypes == {"mouse", "touch", "pen"}
Buttons == {0, 1, 2}
\* What the menu's layout can report: nothing yet, or a menu of 400 by 300.
MenuSizes == {<<0, 0>>, <<400, 300>>}
\* The time between two frames of a 60 Hz display, in ms.
FrameMs == 16

Init ==
  /\ mesh = NoCall
  /\ Unloaded(Desktop)

Budget == events < MaxEvents

PageLoad ==
  \E glAvailable, vsCompiles, fsCompiles, links, nullProgramThrows, menuPresent \in BOOLEAN :
    Load(glAvailable, vsCompiles, fsCompiles, links, nullProgramThrows, menuPresent)

PageMenuClick ==
  Budget /\ \E button \in LevelIds \cup {"none", "other"} : MenuClick(button)

PageKeyDown == Budget /\ \E key \in {"Escape", "Enter"} : KeyDown(key)

PageContextMenu ==
  /\ Budget
  /\ \/ \E pt \in ClientPoints(win) : ContextMenuEvent(pt[1], pt[2], FALSE)
     \/ ContextMenuEvent(0, 0, TRUE)

PagePointerMove == Budget /\ \E pt \in Corners(win) : PointerMove(pt[1], pt[2])

PagePointerDown ==
  /\ Budget
  /\ \E button \in {0, 2}, pt \in Corners(win), inMenu \in BOOLEAN :
       PointerDown("mouse", button, pt[1], pt[2], inMenu)

PageWindowResize == Budget /\ \E w \in Windows : WindowResize(w)

PagePlaceMenu == Budget /\ \E size \in MenuSizes : PlaceMenu(size[1], size[2])

PageRender == Budget /\ Render(FrameMs, 0)

Next ==
  \/ PageLoad
  \/ PageMenuClick
  \/ PageKeyDown
  \/ PageContextMenu
  \/ PagePointerMove
  \/ PagePointerDown
  \/ PageWindowResize
  \/ PagePlaceMenu
  \/ PageRender

Spec == Init /\ [][Next]_vars

\* ------------------------------------------ the page's pointer and menu
\* The load handler with a context, a linked program, and the menu element
\* present or not.
LoadOk(menuPresent) == Load(TRUE, TRUE, TRUE, TRUE, FALSE, menuPresent)

PointerLoad == \E menuPresent \in BOOLEAN : LoadOk(menuPresent)

PointerPress ==
  /\ Budget
  /\ \E pointerType \in PointerTypes, button \in Buttons,
        pt \in Corners(win), inMenu \in BOOLEAN :
       PointerDown(pointerType, button, pt[1], pt[2], inMenu)

PointerContextMenu == Budget /\ ContextMenuEvent(0, 0, FALSE)

PointerKeyDown == Budget /\ \E key \in {"Escape", "Enter"} : KeyDown(key)

PointerRender == Budget /\ \E dt \in {FrameMs, LongGap} : Render(dt, 0)

NextPointer ==
  \/ PointerLoad
  \/ PointerPress
  \/ PointerContextMenu
  \/ PointerKeyDown
  \/ PointerRender

SpecPointer == Init /\ [][NextPointer]_vars

\* ------------------------------------------------------ pointer easing
EaseLoad == LoadOk(FALSE)

\* The pointer moves while the first frames run, then rests.
EaseMove ==
  /\ events - frames < MaxEvents
  /\ frames < MoveWindow
  /\ \E pt \in Corners(win) : PointerMove(pt[1], pt[2])

EaseRender == frames < EaseFrames /\ Render(FrameMs, 0)

NextEase == EaseLoad \/ EaseMove \/ EaseRender

SpecEase == Init /\ [][NextEase]_vars

\* ---------------------------------------------------------- shock aging
\* The times between two frames of a throttled page, in ms.
ShockGaps == {100, 1000, 1100}

ShockLoad == LoadOk(FALSE)

ShockPress ==
  /\ lastPress.primaryCount < MaxShocks
  /\ \E pt \in Corners(win) : PointerDown("touch", 0, pt[1], pt[2], FALSE)

ShockRender == frames < ShockFrames /\ \E dt \in ShockGaps : Render(dt, 0)

NextShock == ShockLoad \/ ShockPress \/ ShockRender

SpecShock == Init /\ [][NextShock]_vars

\* ------------------------------------------- the index buffer of a level
\* A configured level's lattice and one of its points, k = j * cols + i.
InitIndex ==
  /\ \E n \in 1..Len(meshLevels) :
       mesh \in {[cols |-> meshLevels[n].cols, rows |-> meshLevels[n].rows,
                  built |-> "no", grid |-> NoGrid, point |-> k] :
                   k \in 0..(meshLevels[n].cols * meshLevels[n].rows - 1)}
  /\ Unloaded(Desktop)

\* The entries buildHexEdges stores in the Uint16Array for that point.
StorePointEdges ==
  /\ mesh.built = "no"
  /\ mesh' = [mesh EXCEPT
               !.built = "edges",
               !.grid = [positions |-> << >>,
                         indices |-> ToUint16Array(
                           EdgeLoop(mesh.cols, mesh.rows, mesh.point, mesh.point))]]
  /\ UNCHANGED loopVars

NextIndex == StorePointEdges

SpecIndex == InitIndex /\ [][NextIndex]_vars

\* ------------------------------------------------- shock strength and heat
\* The times between two frames, in ms: the next millisecond, 1 s or 1.1 s.
HeatGaps == {1, 1000, 1100}

HeatLoad == LoadOk(FALSE)

HeatPress ==
  /\ lastPress.primaryCount < MaxShocks
  /\ PointerDown("mouse", 0, win.innerWidth, win.innerHeight, FALSE)

\* A frame whose timestamp is the clock's reading, or HeatSkew earlier.
HeatRender ==
  /\ frames < HeatFrames
  /\ \E dt \in HeatGaps, skew \in {0, HeatSkew} : Render(dt, skew)

NextHeat == HeatLoad \/ HeatPress \/ HeatRender

SpecHeat == Init /\ [][NextHeat]_vars

\* ----------------------------------------------------------- the window
\* Window widths around the breakpoints of the scale.
ViewWidths == {400, 479, 480, 600, 767, 768, 900, 1023, 1024, 1920}
\* Windows of those widths, and windows whose canvas is square, has no
\* height, has no width, is laid out smaller than the window, or is shown
\* at two device pixels per pixel.
ViewWindows ==
  {Window(w, 720) : w \in ViewWidths}
    \cup {Window(720, 720), Window(900, 0), Window(0, 720),
          [Window(1024, 720) EXCEPT !.clientWidth = 300, !.clientHeight = 150],
          [Window(400, 720) EXCEPT !.devicePixelRatio = 2],
          [Window(600, 720) EXCEPT !.devicePixelRatio = 0]}

ViewBudget == events < ViewEvents

ViewLoad == LoadOk(FALSE)

ViewResize == ViewBudget /\ \E w \in ViewWindows : WindowResize(w)

ViewRender == ViewBudget /\ Render(FrameMs, 0)

NextView == ViewLoad \/ ViewResize \/ ViewRender

SpecView == Init /\ [][NextView]_vars

\* ------------------------------------------------------- the render loop
\* Handlers run on behalf of the user, as opposed to animation frames.
UserEvents == events - frames - placed.n
LoopBudget == UserEvents <= LoopEvents

LoopLoad == \E menuPresent \in BOOLEAN : LoadOk(menuPresent)

LoopKeyDown == LoopBudget /\ KeyDown("Escape")

LoopContextMenu == LoopBudget /\ ContextMenuEvent(0, 0, FALSE)

LoopPointerMove ==
  LoopBudget /\ PointerMove(win.innerWidth, win.innerHeight)

LoopPointerDown ==
  LoopBudget /\ \E button \in {0, 2} : PointerDown("mouse", button, 0, 0, FALSE)

LoopMenuClick == LoopBudget /\ \E button \in {"dense", "none"} : MenuClick(button)

LoopWindowResize == LoopBudget /\ \E w \in Windows : WindowResize(w)

\* The animation frame runs every callback requested before it; the frames
\* themselves are counted up to LoopFrames.
LoopPlaceMenu == PlaceMenu(0, 0)

LoopRender == frames < LoopFrames /\ Render(FrameMs, 0)

NextLoop ==
  \/ LoopLoad
  \/ LoopKeyDown
  \/ LoopContextMenu
  \/ LoopPointerMove
  \/ LoopPointerDown
  \/ LoopMenuClick
  \/ LoopWindowResize
  \/ LoopPlaceMenu
  \/ LoopRender

\* The browser runs a requested animation frame callback eventually.
SpecLoop ==
  Init /\ [][NextLoop]_vars /\ WF_vars(LoopPlaceMenu) /\ WF_vars(LoopRender)

\* ================================================================ claims
\* ---- mesh builder ----
Built == mesh.built /= "no"
PointCount == mesh.cols * mesh.rows
EdgeCount == Len(mesh.grid.indices) \div 2
EdgeFrom(e) == mesh.grid.indices[2 * e - 1]
EdgeTo(e) == mesh.grid.indices[2 * e]

\* C1: a built grid holds exactly cols*rows points (2*cols*rows position
\* entries) and every index entry is an integer in [0, cols*rows).
C1_PointsAndIndexRange ==
  Built =>
    /\ Len(mesh.grid.positions) = 2 * PointCount
    /\ \A k \in 1..Len(mesh.grid.indices) :
         mesh.grid.indices[k] \in 0..(PointCount - 1)

C1_Witness ==
  /\ mesh.built = "reference" /\ mesh.cols = 4 /\ mesh.rows = 3
  /\ Len(mesh.grid.positions) = 24
  /\ Len(mesh.grid.indices) > 0

\* b is the right, the lower or the parity-dependent diagonal lower
\* neighbour of a, both inside the lattice.
IsLatticeNeighbour(a, b) ==
  LET i == a % mesh.cols
      j == a \div mesh.cols
      ni == b % mesh.cols
      nj == b \div mesh.cols
  IN  /\ a \in 0..(PointCount - 1)
      /\ b \in 0..(PointCount - 1)
      /\ \/ ni = i + 1 /\ nj = j
         \/ ni = i /\ nj = j + 1
         \/ nj = j + 1 /\ ni = (IF j % 2 = 0 THEN i - 1 ELSE i + 1)

\* C2: the edge list has no self-loop and no undirected pair twice, every
\* edge joins a point to its right, lower or diagonal lower neighbour (the
\* diagonal is (i-1,j+1) on even rows and (i+1,j+1) on odd rows), and the
\* list is non-empty whenever there are at least two points.
C2_EdgesFollowLattice ==
  Built =>
    /\ Len(mesh.grid.indices) = 2 * EdgeCount
    /\ \A e \in 1..EdgeCount :
         /\ EdgeFrom(e) /= EdgeTo(e)
         /\ IsLatticeNeighbour(EdgeFrom(e), EdgeTo(e))
    /\ \A e, f \in 1..EdgeCount :
         e < f => {EdgeFrom(e), EdgeTo(e)} /= {EdgeFrom(f), EdgeTo(f)}
    /\ PointCount >= 2 => EdgeCount > 0

\* cols=4, rows=3: an even row's diagonal (1,0)-(0,1) and an odd row's
\* diagonal (0,1)-(1,2) are both edges.
C2_Witness ==
  /\ mesh.built = "reference" /\ mesh.cols = 4 /\ mesh.rows = 3
  /\ \E e, f \in 1..EdgeCount :
       /\ EdgeFrom(e) = 1 /\ EdgeTo(e) = 4
       /\ EdgeFrom(f) = 4 /\ EdgeTo(f) = 9

\* ---- shaders and the context ----
ShaderFailed == consoleErrors > 0
RenderPending == \E k \in 1..Len(rafQueue) : rafQueue[k].kind = "render"

\* C3: when a shader does not compile or the program does not link,
\* createProgram returns null and the load handler aborts: no draw call is
\* ever issued and no render frame is scheduled.
C3_NullProgramAborts ==
  ShaderFailed => /\ program = "null"
                  /\ draws.count = 0
                  /\ ~RenderPending

\* C10: without a WebGL context the load handler returns silently: no
\* listener is registered, no frame is scheduled, nothing is drawn, and
\* nothing is logged or thrown.
C10_NoContextIsSilent ==
  gl = "null" =>
    /\ phase = "disabled"
    /\ listeners = {}
    /\ rafQueue = << >>
    /\ draws.count = 0
    /\ frames = 0
    /\ consoleErrors = 0
    /\ uncaught = 0
    /\ program = "none"

\* The page without a context, after its window was resized.
C10_Witness == gl = "null" /\ phase = "disabled" /\ lastEvent.kind = "resize"

\* ---- pointer easing ----
AxisError(axis) ==
  IF axis = "x" THEN Abs(targetMouse.x - mouse.x) ELSE Abs(targetMouse.y - mouse.y)
AxisStart(axis) == IF axis = "x" THEN ease.d0.x ELSE ease.d0.y
AxisLeft(axis) == IF axis = "x" THEN ease.left.x ELSE ease.left.y
\* What the rounding of the arithmetic can add up to: 2e-5.
EaseTolerance == PtrScale \div 50000
\* The error is below a thousandth of the first distance, up to rounding.
Settled(axis) == AxisError(axis) * 1000 < AxisStart(axis) + 1000 * EaseTolerance

\* C4, as stated: with the target held, the error is below 1e-3 of the
\* first distance after 60 frames.
C4_SettledAfter60 ==
  phase = "running" =>
    \A axis \in {"x", "y"} : ease.held >= 60 => Settled(axis)

\* C4, amended: with the target held, each frame leaves 93% of the distance
\* to the target (the error after n frames is the first distance times
\* 0.93^n), and the error is below 1e-3 of the first distance after 96
\* frames; all up to the rounding of the arithmetic.
C4_EasingConverges ==
  phase = "running" =>
    \A axis \in {"x", "y"} :
      /\ Abs(AxisError(axis) - AxisLeft(axis)) <= EaseTolerance
      /\ ease.held >= 96 => Settled(axis)

\* 96 frames after the pointer crossed the window, the error is small but
\* not yet zero.
C4_Witness ==
  /\ phase = "running" /\ ease.held = 96
  /\ ease.d0.x > PtrScale
  /\ AxisError("x") > 0 /\ Settled("x")

\* ---- shocks ----
ShockStart == lastPress.time
LastFrameTime == uniforms.uTime
IsZero(r) == r.n = 0
InUnitInterval(r) == r.n > 0 /\ r.n <= r.d

\* C5: a frame more than 4.5 s after the shock's start clears the shock
\* (start none, age -1, strength and heat 0), and it stays cleared on every
\* later frame until a new primary press; a frame 1 s after the start
\* reports strength and heat in (0,1].
C5_ShockExpires ==
  (frames > 0 /\ ShockStart >= 0) =>
    /\ LastFrameTime > ShockStart + 4500 =>
         /\ shockState.start = 0 - 1
         /\ uniforms.uShockTime = NoAge
         /\ IsZero(uniforms.uShockPower)
         /\ IsZero(uniforms.uShockHeat)
    /\ LastFrameTime = ShockStart + 1000 =>
         /\ InUnitInterval(uniforms.uShockPower)
         /\ InUnitInterval(uniforms.uShockHeat)

\* A frame 5 s after the press, with the shock cleared.
C5_Witness ==
  /\ ShockStart >= 0 /\ LastFrameTime = ShockStart + 5000
  /\ shockState.start = 0 - 1 /\ uniforms.uShockTime = NoAge

\* C6: the shock is that of the most recent primary press (left mouse
\* button, or any touch or pen press, outside the menu): its origin is that
\* press's position and its start that press's time, until a frame more
\* than 4.5 s later clears the start; other presses leave it unchanged.
C6_OneShockLastPrimaryPress ==
  phase = "running" =>
    IF lastPress.primaryCount = 0
    THEN shockState = InitialShock
    ELSE /\ shockState.origin = lastPress.coords
         /\ shockState.start \in {lastPress.time, 0 - 1}
         /\ shockState.start = 0 - 1 =>
              (frames > 0 /\ LastFrameTime > lastPress.time + 4500)

\* Two primary presses, then a right mouse press: the shock is the second
\* primary press's.
C6_Witness ==
  /\ lastPress.primaryCount = 2
  /\ lastEvent.kind = "pointerdown" /\ lastEvent.detail = "mouse"
  /\ lastEvent.button = 2
  /\ shockState.origin = lastPress.coords /\ shockState.start = lastPress.time
  /\ shockState.origin /= Origin

\* ---- mesh levels ----
CurrentLevel == FindLevel(currentMeshLevel)
ClickedOtherLevel ==
  /\ lastEvent.kind = "click"
  /\ lastEvent.detail \in LevelIds
  /\ lastEvent.detail /= lastEvent.before.level

\* C7: the grid in use is createHexGrid of the current level, both buffers
\* hold that grid's arrays, and a frame draws that grid's index count; a
\* click on another level builds a new grid object and uploads both
\* buffers at once, any other click builds and uploads nothing.
C7_LevelGridBuffersAgree ==
  phase = "running" =>
    /\ currentMeshLevel \in LevelIds
    /\ LET built == createHexGrid(LatticeCols(CurrentLevel), LatticeRows(CurrentLevel))
       IN  grid.positions = built.positions /\ grid.indices = built.indices
    /\ posBuf = grid.positions
    /\ idxBuf = grid.indices
    /\ lastEvent.kind = "render" => draws.elements = Len(grid.indices)
    /\ lastEvent.kind = "click" =>
         IF ClickedOtherLevel
         THEN /\ currentMeshLevel = lastEvent.detail
              /\ grid.obj = lastEvent.before.obj + 1
              /\ uploads = lastEvent.before.uploads + 1
         ELSE /\ currentMeshLevel = lastEvent.before.level
              /\ grid.obj = lastEvent.before.obj
              /\ uploads = lastEvent.before.uploads

\* A click on "dense" after the load: the second grid, uploaded.
C7_Witness ==
  /\ ClickedOtherLevel /\ currentMeshLevel = "dense"
  /\ grid.obj = 2 /\ uploads = 2
  /\ idxBuf = grid.indices /\ Len(idxBuf) > 0

\* ---- the context menu ----
MenuClosed == ~menu.visible /\ ~menu.open
PressedOutside == lastEvent.kind = "pointerdown" /\ ~lastEvent.inMenu
RightMousePress ==
  lastEvent.kind = "pointerdown" /\ lastEvent.detail = "mouse" /\ lastEvent.button = 2
PressedEscape == lastEvent.kind = "keydown" /\ lastEvent.detail = "Escape"

\* C8, as stated: with the menu open, Escape or a pointer-down outside the
\* menu closes it.
C8_OutsidePressCloses ==
  (lastEvent.before.menuVisible /\ (PressedEscape \/ PressedOutside)) => MenuClosed

\* C8, amended: with the menu open, Escape or a pointer-down outside the
\* menu other than a right mouse button press closes it (the open flag is
\* false and the 'open' class removed); a right mouse button press opens it
\* anew.
C8_EscapeOrOtherPressCloses ==
  lastEvent.before.menuVisible =>
    /\ (PressedEscape \/ (PressedOutside /\ ~RightMousePress)) => MenuClosed
    /\ RightMousePress => (menu.visible /\ menu.open)

\* A middle mouse button press outside the open menu closed it.
C8_Witness ==
  /\ lastEvent.before.menuVisible /\ PressedOutside
  /\ lastEvent.detail = "mouse" /\ lastEvent.button = 1
  /\ MenuClosed /\ menu.ariaHidden = "true"

JustPlaced == lastEvent.kind = "place"
\* The menu's rectangle lies within the viewport.
MenuInViewport ==
  /\ menu.left >= 0 /\ menu.left + placed.menuWidth <= placed.innerWidth
  /\ menu.top >= 0 /\ menu.top + placed.menuHeight <= placed.innerHeight

C11_OneDrawPerFrame ==
  [][IF frames' = frames + 1
     THEN /\ draws'.count = draws.count + 1
          /\ draws'.mode = "LINES"
          /\ draws'.type = "UNSIGNED_SHORT"
          /\ draws'.elements = Len(grid'.indices)
          /\ draws'.elements = Len(idxBuf')
     ELSE draws' = draws]_vars

\* Two frames drawn, the second after a click on another level and a
\* further event.
C11_Witness ==
  /\ frames = 2 /\ draws.count = 2 /\ events >= 5
  /\ grid.obj = 2
  /\ draws.elements = Len(grid.indices) /\ draws.elements > 0

PendingRenders ==
  Cardinality({k \in 1..Len(rafQueue) : rafQueue[k].kind = "render"})

\* C12: once the load handler has run with a usable context, exactly one
\* render callback is pending at any time, whatever pointer, key, menu and
\* resize events occur, and under fair frame scheduling every frame is
\* followed by a further frame (as far as frames are counted).
C12_LoopNeverStops ==
  /\ [](phase = "running" => PendingRenders = 1)
  /\ \A n \in 0..(LoopFrames - 1) :
       (phase = "running" /\ frames = n) ~> (frames = n + 1)

\* The last counted frame, after user events and a menu placement, with
\* its successor pending behind a placement callback.
C12_Witness ==
  /\ phase = "running" /\ frames = LoopFrames
  /\ placed.n >= 1 /\ UserEvents >= 3
  /\ PendingRenders = 1 /\ Len(rafQueue) = 2

\* ---- normalization ----
XS == {mesh.grid.positions[2 * k - 1] : k \in 1..PointCount}
YS == {mesh.grid.positions[2 * k] : k \in 1..PointCount}
\* 1.25 and 1 in lattice units.
Wide == (PosScale * 125) \div 100
IsMin(v, S) == v \in S /\ \A u \in S : v <= u
IsMax(v, S) == v \in S /\ \A u \in S : u <= v

\* C13: for cols >= 2 and rows >= 2 the built positions have min(x) = -1.25
\* or max(x) = 1.25, min(y) = -1 and max(y) = 1, and every point lies in
\* [-1.25, 1.25] x [-1, 1].
C13_NormalizationBounds ==
  (Built /\ mesh.cols >= 2 /\ mesh.rows >= 2) =>
    /\ IsMin(0 - Wide, XS) \/ IsMax(Wide, XS)
    /\ IsMin(0 - PosScale, YS)
    /\ IsMax(PosScale, YS)
    /\ \A x \in XS : 0 - Wide <= x /\ x <= Wide
    /\ \A y \in YS : 0 - PosScale <= y /\ y <= PosScale

\* A 3 by 3 lattice: both x bounds are met and a point lies strictly inside.
C13_Witness ==
  /\ Built /\ mesh.cols = 3 /\ mesh.rows = 3
  /\ IsMin(0 - Wide, XS) /\ IsMax(Wide, XS)
  /\ \E k \in 1..PointCount :
       /\ Abs(mesh.grid.positions[2 * k - 1]) < Wide
       /\ mesh.grid.positions[2 * k] = 0

RawPoints == buildHexPoints(mesh.cols, mesh.rows, cellHeightOf)
RawBounds == BoundsLoop(RawPoints, 1, Len(RawPoints))
RawSpanX == RawBounds.maxX - RawBounds.minX
RawSpanY == RawBounds.maxY - RawBounds.minY
Finite(v) == v /= NotANumber /\ Abs(v) < Infinity

\* C14: the x span of the raw lattice is 0 exactly for cols = 1 with
\* rows = 1 and the y span exactly for rows = 1; a zero span is replaced by
\* 1, so no division is by zero and every coordinate is a finite number; a
\* 1 by 1 grid is one point at (-1.25, -1) and has no edge.
C14_DegenerateSpans ==
  Built =>
    /\ RawSpanX = 0 <=> (mesh.cols = 1 /\ mesh.rows = 1)
    /\ RawSpanY = 0 <=> mesh.rows = 1
    /\ computeBounds(RawPoints).spanX = (IF RawSpanX = 0 THEN PosScale ELSE RawSpanX)
    /\ computeBounds(RawPoints).spanY = (IF RawSpanY = 0 THEN PosScale ELSE RawSpanY)
    /\ \A k \in 1..Len(mesh.grid.positions) : Finite(mesh.grid.positions[k])
    /\ (mesh.cols = 1 /\ mesh.rows = 1) =>
         /\ mesh.grid.positions = << 0 - Wide, 0 - PosScale >>
         /\ mesh.grid.indices = << >>

\* A single row of several points: the y span is replaced, every point
\* lies at y = -1.
C14_Witness ==
  /\ Built /\ mesh.rows = 1 /\ mesh.cols >= 2
  /\ RawSpanY = 0 /\ computeBounds(RawPoints).spanY = PosScale
  /\ YS = {0 - PosScale}
  /\ Cardinality(XS) = mesh.cols

\* ---- the window ----
JustRendered == frames > 0 /\ lastEvent.kind = "render"
\* The scale of the claim's table, in tenths.
TableScale(w) ==
  IF w < 480 THEN 18
  ELSE IF 480 <= w /\ w < 768 THEN 14
       ELSE IF 768 <= w /\ w < 1024 THEN 12
            ELSE 10

\* C15: the scale uniform of every frame is 1.8 for a width below 480, 1.4
\* from 480 below 768, 1.2 from 768 below 1024 and 1.0 otherwise, of the
\* width the window has at that frame; no resize rebuilds the grid.
C15_ResponsiveScale ==
  JustRendered =>
    /\ uniforms.uScale = TableScale(win.innerWidth)
    /\ win.innerWidth = 400 => uniforms.uScale = 18
    /\ win.innerWidth = 600 => uniforms.uScale = 14
    /\ win.innerWidth = 900 => uniforms.uScale = 12
    /\ win.innerWidth = 1920 => uniforms.uScale = 10
    /\ grid.obj = 1 /\ uploads = 1

\* A frame at 1280, a resize to 900, and the next frame at scale 1.2.
C15_Witness ==
  /\ JustRendered /\ frames = 2 /\ events = 4
  /\ win.innerWidth = 900 /\ uniforms.uScale = 12
  /\ grid.obj = 1

AtBreakpoint == JustRendered /\ win.innerWidth \in {480, 768, 1024}

\* C16, as stated: a width equal to a breakpoint (480, 768, 1024) receives
\* the scale of the bucket below it (1.8, 1.4, 1.2).
C16_BreakpointInLowerBucket ==
  AtBreakpoint =>
    /\ win.innerWidth = 480 => uniforms.uScale = 18
    /\ win.innerWidth = 768 => uniforms.uScale = 14
    /\ win.innerWidth = 1024 => uniforms.uScale = 12

\* C16, amended: a width equal to a breakpoint (480, 768, 1024) receives
\* the scale of the bucket that starts at it (1.4, 1.2, 1.0); the widths
\* one below (479, 767, 1023) receive 1.8, 1.4, 1.2.
C16_BreakpointStartsBucket ==
  JustRendered =>
    /\ win.innerWidth = 479 => uniforms.uScale = 18
    /\ win.innerWidth = 480 => uniforms.uScale = 14
    /\ win.innerWidth = 767 => uniforms.uScale = 14
    /\ win.innerWidth = 768 => uniforms.uScale = 12
    /\ win.innerWidth = 1023 => uniforms.uScale = 12
    /\ win.innerWidth = 1024 => uniforms.uScale = 10

\* A frame in a window exactly 768 wide, at scale 1.2.
C16_Witness == AtBreakpoint /\ win.innerWidth = 768 /\ uniforms.uScale = 12

\* ---- aspect correction ----
\* The ratio r equals n / d; the ratio r is 1; the ratio r is at least 1.
RatioIs(r, n, d) == r.d > 0 /\ d > 0 /\ r.n * d = r.d * n
IsOne(r) == r.d > 0 /\ r.n = r.d
AtLeastOne(r) == r.d > 0 /\ r.n >= r.d
\* (clientWidth || innerWidth) * (devicePixelRatio || 1), and the height.
PixelWidth ==
  (IF win.clientWidth /= 0 THEN win.clientWidth ELSE win.innerWidth)
    * (IF win.devicePixelRatio /= 0 THEN win.devicePixelRatio ELSE 1)
PixelHeight ==
  (IF win.clientHeight /= 0 THEN win.clientHeight ELSE win.innerHeight)
    * (IF win.devicePixelRatio /= 0 THEN win.devicePixelRatio ELSE 1)

\* C18: after every call of resize, with w and h the device-pixel-scaled
\* canvas size, the correction pair is (1, w/h) when w/h >= 1, (h/w, 1)
\* when 0 < w/h < 1 and (1, 1) when h is 0; both components are at least 1
\* and one of them is 1.
C18_AspectCorrection ==
  phase = "running" =>
    /\ canvas.width = PixelWidth /\ canvas.height = PixelHeight
    /\ (PixelHeight > 0 /\ PixelWidth >= PixelHeight) =>
         /\ IsOne(aspectScale.x)
         /\ RatioIs(aspectScale.y, PixelWidth, PixelHeight)
    /\ (PixelWidth > 0 /\ PixelWidth < PixelHeight) =>
         /\ RatioIs(aspectScale.x, PixelHeight, PixelWidth)
         /\ IsOne(aspectScale.y)
    /\ PixelHeight = 0 => (IsOne(aspectScale.x) /\ IsOne(aspectScale.y))
    /\ AtLeastOne(aspectScale.x) /\ AtLeastOne(aspectScale.y)
    /\ IsOne(aspectScale.x) \/ IsOne(aspectScale.y)

\* A portrait window at two device pixels per pixel, after its resize
\* event: x is scaled by 1440/800.
C18_Witness ==
  /\ phase = "running" /\ lastEvent.kind = "resize"
  /\ win.devicePixelRatio = 2 /\ canvas.width = 800 /\ canvas.height = 1440
  /\ RatioIs(aspectScale.x, 9, 5) /\ IsOne(aspectScale.y)

\* ---- pointer speed ----
\* 2.5 and 0.0001 in units of pointer speed.
TopSpeed == (PtrScale * 25) \div 10
SpeedFloor == PtrScale \div 10000
InSpeedRange(v) == 0 <= v /\ v <= TopSpeed
\* A step of render: the target is multiplied by 0.9, or set to 0 once the
\* product is below 0.0001; the value moves 8% of the way to the target it
\* found, and does not rise once it is at or above that target.
SpeedFrame ==
  /\ \/ /\ pointerSpeed'.target = 0
        /\ 9 * pointerSpeed.target < 10 * SpeedFloor + 5
     \/ /\ pointerSpeed'.target >= SpeedFloor
        /\ Abs(10 * pointerSpeed'.target - 9 * pointerSpeed.target) <= 5
  /\ Abs(100 * (pointerSpeed'.value - pointerSpeed.value)
           - 8 * (pointerSpeed.target - pointerSpeed.value)) <= 50
  /\ pointerSpeed.target <= pointerSpeed.value =>
       /\ pointerSpeed'.value <= pointerSpeed.value
       /\ pointerSpeed'.value >= pointerSpeed'.target
  /\ (pointerSpeed.target = 0 /\ pointerSpeed.value >= EaseTolerance) =>
       pointerSpeed'.value < pointerSpeed.value

\* C17: the speed target and the smoothed speed always lie in [0, 2.5]; a
\* frame multiplies the target by 0.9 and moves the value 8% of the way to
\* the target; without pointer events the target is exactly 0 after
\* SpeedRestFrames frames, and from then on the value only decreases
\* toward 0.
C17_SpeedRelaxes ==
  /\ [](phase = "running" =>
         InSpeedRange(pointerSpeed.target) /\ InSpeedRange(pointerSpeed.value))
  /\ [][frames' = frames + 1 => SpeedFrame]_vars
  /\ [](ease.held >= SpeedRestFrames => pointerSpeed.target = 0)
  /\ [][(frames' = frames + 1 /\ ease.held >= SpeedRestFrames)
         => (pointerSpeed'.value <= pointerSpeed.value /\ pointerSpeed'.value >= 0)]_vars

\* After the pointer crossed the window: the target at rest, the value
\* still above 0.
C17_Witness ==
  /\ phase = "running" /\ ease.held = SpeedRestFrames
  /\ ease.d0.x > PtrScale
  /\ pointerSpeed.target = 0 /\ pointerSpeed.value > 0

\* ---- shock strength and heat ----
ShockAge == uniforms.uShockTime
Strength == uniforms.uShockPower
Heat == uniforms.uShockHeat

\* C19: on every frame 0 <= heat <= strength <= 1; both are 0 when no
\* shock is active or the age is negative; heat is 0 from an age of 2.2 s
\* and strength from 3.2 s; before that heat is 1 - age / 2.2 and strength
\* 1 - age / 3.2.
C19_HeatBelowStrength ==
  frames > 0 =>
    /\ Heat.d > 0 /\ Strength.d > 0
    /\ 0 <= Heat.n
    /\ Heat.n * Strength.d <= Strength.n * Heat.d
    /\ Strength.n <= Strength.d
    /\ (shockState.start < 0 \/ ShockAge < 0) => (Heat.n = 0 /\ Strength.n = 0)
    /\ ShockAge >= 2200 => Heat.n = 0
    /\ ShockAge >= 3200 => Strength.n = 0
    /\ (0 <= ShockAge /\ ShockAge < 2200) => Heat.n * 2200 = Heat.d * (2200 - ShockAge)
    /\ (0 <= ShockAge /\ ShockAge < 3200) =>
         Strength.n * 3200 = Strength.d * (3200 - ShockAge)

\* A frame whose timestamp lies before the press: the age is negative, the
\* shock active, strength and heat 0.
C19_Witness ==
  /\ JustRendered /\ shockState.start >= 0
  /\ LastFrameTime < shockState.start
  /\ ShockAge < 0 /\ ShockAge /= NoAge
  /\ Heat.n = 0 /\ Strength.n = 0

\* ---- the 16-bit index buffer ----
\* The indices a point k of a lattice cols wide is joined to.
JoinedTo(k, cols) == {k + 1, k + cols, k + cols - 1, k + cols + 1}

\* C20: every configured level has at most 65536 points, so every entry
\* stored in the 16-bit index buffer is the intended index j * cols + i of
\* a point of the lattice, not that index modulo 2^16.
C20_IndicesNotTruncated ==
  mesh.built = "edges" =>
    /\ PointCount <= 65536
    /\ mesh.grid.indices = EdgeLoop(mesh.cols, mesh.rows, mesh.point, mesh.point)
    /\ \A e \in 1..EdgeCount :
         /\ EdgeFrom(e) = mesh.point
         /\ EdgeTo(e) \in JoinedTo(mesh.point, mesh.cols)
         /\ EdgeTo(e) < PointCount

\* The densest level: an edge to its last point, 120 * 42 - 1.
C20_Witness ==
  /\ mesh.built = "edges" /\ mesh.cols = 120 /\ mesh.rows = 42
  /\ \E e \in 1..EdgeCount : EdgeTo(e) = 5039 /\ EdgeFrom(e) = 5038

====
